---- MODULE Spec2Model ----
(***************************************************************************)
(* Model of pySTR4500/client.py: the command facade (STR4500, Channel,     *)
(* Satellite), the wire codec (encode), the transport (dispatch) and the   *)
(* response parser (CommandResponse.fromstring).                           *)
(*                                                                         *)
(* Texts are TLA+ strings and are built and taken apart character by       *)
(* character (\o, Head, Tail), so that formatting and parsing are computed *)
(* and not assumed.  Python values carry their type, because str() and     *)
(* int() act differently on int, bool, float, str and None.                *)
(***************************************************************************)
EXTENDS Integers, Sequences, FiniteSets, TLC

VARIABLES
  pc,          \* position of the (single, synchronous) caller
  dev,         \* the STR4500 instance's attributes; exists = FALSE before __init__ returns
  call,        \* the facade call in progress or last finished
  line,        \* msg handed to dispatch by the call (encode(cmd))
  sockOpen,    \* number of sockets opened and not yet closed
  sent,        \* the byte strings sendall has written during the current call
  reply,       \* what recv returned to the current call
  err,         \* exception pending inside dispatch's try block
  resp,        \* outcome of handle (CommandResponse.fromstring(dispatch(...)))
  result,      \* outcome of the facade call as seen by its caller
  lastStatus,  \* status of the last CommandResponse any call obtained
  ncalls,      \* number of calls finished so far (capped)
  fields,      \* cmd: the field list the call in progress handed to handle
  io           \* the socket operations of the call in progress, in order

vars == <<pc, dev, call, line, sockOpen, sent, reply, err, resp, result,
          lastStatus, ncalls, fields, io>>

-----------------------------------------------------------------------------
(* Bounds of the model *)

\* calls counted before the counter saturates
MaxCalls == 2
\* integers above the valid range 0..2 offered as trigger / stop / power modes
ModeSlack == 1
\* longest field list handed to encode on its own
MaxFields == 4

-----------------------------------------------------------------------------
(* Python values *)

None == [t |-> "NoneType", i |-> 0, s |-> ""]
IntV(n) == [t |-> "int", i |-> n, s |-> ""]
BoolV(b) == [t |-> "bool", i |-> IF b THEN 1 ELSE 0, s |-> ""]
StrV(x) == [t |-> "str", i |-> 0, s |-> x]
\* a float with one binary digit after the point: FloatV(h) is h/2
FloatV(h) == [t |-> "float", i |-> h, s |-> ""]
\* an instance of a class of the module, named by its class
ObjV(cls) == [t |-> "object", i |-> 0, s |-> cls]

Digits == <<"0", "1", "2", "3", "4", "5", "6", "7", "8", "9">>

IsDigit(c) == \E d \in 1..10 : Digits[d] = c

DigitVal(c) == (CHOOSE d \in 1..10 : Digits[d] = c) - 1

RECURSIVE NatToStr(_)
NatToStr(n) ==
  IF n < 10 THEN Digits[n + 1] ELSE NatToStr(n \div 10) \o Digits[(n % 10) + 1]

IntToStr(n) == IF n < 0 THEN "-" \o NatToStr(0 - n) ELSE NatToStr(n)

Abs(n) == IF n < 0 THEN 0 - n ELSE n

FloatToStr(h) ==
  (IF h < 0 THEN "-" ELSE "") \o NatToStr(Abs(h) \div 2) \o "."
     \o (IF Abs(h) % 2 = 0 THEN "0" ELSE "5")

\* str(x)
PyStr(x) ==
  CASE x.t = "str" -> x.s
    [] x.t = "int" -> IntToStr(x.i)
    [] x.t = "bool" -> (IF x.i = 1 THEN "True" ELSE "False")
    [] x.t = "float" -> FloatToStr(x.i)
    [] x.t = "NoneType" -> "None"
    [] OTHER -> "<pySTR4500.client." \o x.s \o " object>"

RECURSIVE LStrip(_)
LStrip(s) == IF s # "" /\ Head(s) = " " THEN LStrip(Tail(s)) ELSE s

RECURSIVE RStrip(_)
RStrip(s) ==
  IF s # "" /\ SubSeq(s, Len(s), Len(s)) = " "
  THEN RStrip(SubSeq(s, 1, Len(s) - 1)) ELSE s

RECURSIVE AllDigits(_)
AllDigits(s) == s = "" \/ (IsDigit(Head(s)) /\ AllDigits(Tail(s)))

RECURSIVE DigitsVal(_, _)
DigitsVal(s, acc) ==
  IF s = "" THEN acc ELSE DigitsVal(Tail(s), acc * 10 + DigitVal(Head(s)))

\* int(text) of a string: blanks stripped, an optional sign, then digits only
ParseInt(text) ==
  LET b == RStrip(LStrip(text))
      signed == b # "" /\ Head(b) \in {"-", "+"}
      body == IF signed THEN Tail(b) ELSE b
  IN IF body # "" /\ AllDigits(body)
     THEN [ok |-> TRUE,
           n |-> IF signed /\ Head(b) = "-" THEN 0 - DigitsVal(body, 0)
                 ELSE DigitsVal(body, 0)]
     ELSE [ok |-> FALSE, n |-> 0]

-----------------------------------------------------------------------------
(* Outcomes of a call: a CommandResponse, a bare value, or an exception *)

NoOutcome == [k |-> "none", exc |-> "", msg |-> "", status |-> None, data |-> None]

\* CommandResponse.__init__(status, data)
CommandResponse(status, data) ==
  [k |-> "response", exc |-> "", msg |-> "", status |-> status, data |-> data]

Value(v) == [k |-> "value", exc |-> "", msg |-> "", status |-> None, data |-> v]

Raise(exc, msg) ==
  [k |-> "raise", exc |-> exc, msg |-> msg, status |-> None, data |-> None]

\* int(x) as an outcome: the integer, or the exception int() raises
PyInt(x) ==
  CASE x.t = "int" -> Value(IntV(x.i))
    [] x.t = "bool" -> Value(IntV(x.i))
    [] x.t = "float" ->
         Value(IntV(IF x.i < 0 THEN 0 - (Abs(x.i) \div 2) ELSE x.i \div 2))
    [] x.t = "str" ->
         (IF ParseInt(x.s).ok THEN Value(IntV(ParseInt(x.s).n))
          ELSE Raise("ValueError", "invalid literal for int() with base 10"))
    [] OTHER -> Raise("TypeError", "int() argument must be a string or a number")

-----------------------------------------------------------------------------
(* Module constants *)

BUFFER_SIZE == 4096
SIMPLEX_PORT == 15650
VEHICLE_ANTENNA == "v1_a1"

StatusCodes == 0..6

STATUS_VALUES ==
  [c \in StatusCodes |->
     CASE c = 0 -> "No scenario specified"
       [] c = 1 -> "Invalid scenario"
       [] c = 2 -> "Initialised"
       [] c = 3 -> "Arming"
       [] c = 4 -> "Running"
       [] c = 5 -> "Paused"
       [] c = 6 -> "Ended"]

StatusNames == {STATUS_VALUES[c] : c \in StatusCodes}

-----------------------------------------------------------------------------
(* Replies: the bytes recv returns, seen as ElementTree sees them *)

\* a child element of the reply's root: its tag and its text (None when empty)
Elem(tag, text) == [tag |-> tag, text |-> text]

EmptyReply == [form |-> "empty", children |-> << >>]
MalformedReply == [form |-> "malformed", children |-> << >>]
Doc(children) == [form |-> "xml", children |-> children]

\* p.find(tag): the first child with that tag; found = FALSE stands for None
Find(p, tag) ==
  LET hits == {j \in 1..Len(p.children) : p.children[j].tag = tag}
  IN IF hits = {} THEN [found |-> FALSE, text |-> None]
     ELSE [found |-> TRUE,
           text |-> p.children[CHOOSE j \in hits : \A m \in hits : j <= m].text]

\* mutant: the table is read one code too high
StatusLookupShifted(text) ==
  LET n == PyInt(text)
  IN IF n.k = "raise" THEN n
     ELSE IF n.data.i \in DOMAIN STATUS_VALUES
          THEN Value(StrV(STATUS_VALUES[(n.data.i + 1) % 7]))
          ELSE Raise("RuntimeError", "Invalid STR4500 status.")

\* mutant: STATUS_VALUES.get(...), which gives None for an unmapped code
StatusLookupGet(text) ==
  LET n == PyInt(text)
  IN IF n.k = "raise" THEN n
     ELSE IF n.data.i \in DOMAIN STATUS_VALUES
          THEN Value(StrV(STATUS_VALUES[n.data.i]))
          ELSE Value(None)

\* STATUS_VALUES[int(p.find('status').text)] inside try/except KeyError
StatusLookup(text) ==
  LET n == PyInt(text)
  IN IF n.k = "raise" THEN n
     ELSE IF n.data.i \in DOMAIN STATUS_VALUES
          THEN Value(StrV(STATUS_VALUES[n.data.i]))
          ELSE Raise("RuntimeError", "Invalid STR4500 status.")

\* mutant: the device's text is dropped from the message
DeviceErrorNoText(msg) == Raise("RuntimeError", "STR4500 returned error: ")

\* raise RuntimeError("STR4500 returned error: %s" % msg)
DeviceError(msg) == Raise("RuntimeError", "STR4500 returned error: " \o PyStr(msg))

\* mutant: the data element is never read
DataOfDropped(data) == None

\* p.find('data').text if p.find('data') is not None else None
DataOf(data) == IF data.found THEN data.text ELSE None

\* CommandResponse.fromstring(response)
fromstring(response) ==
  IF response.form = "empty" THEN CommandResponse(None, None)
  ELSE IF response.form = "malformed" THEN Raise("ParseError", "syntax error")
  ELSE
    LET status == Find(response, "status")
        error == Find(response, "error")
        data == Find(response, "data")
    IN IF ~status.found
       THEN Raise("RuntimeError", "Invalid STR4500 response: status required.")
       ELSE IF StatusLookup(status.text).k = "raise"
       THEN StatusLookup(status.text)
       ELSE IF error.found
       THEN DeviceError(error.text)
       ELSE CommandResponse(StatusLookup(status.text).data, DataOf(data))

\* encode(cmd): ','.join(map(str, cmd))
RECURSIVE Join(_)
Join(strs) ==
  IF Len(strs) = 0 THEN ""
  ELSE IF Len(strs) = 1 THEN strs[1]
  ELSE strs[1] \o "," \o Join(Tail(strs))

\* mutant: every field is followed by a comma, the last one too
encodeTrailing(cmd) == Join([j \in 1..Len(cmd) |-> PyStr(cmd[j])]) \o ","

encode(cmd) == Join([j \in 1..Len(cmd) |-> PyStr(cmd[j])])

-----------------------------------------------------------------------------
(* The command facade.  A method either raises before any I/O or builds    *)
(* the field list it hands to handle.                                      *)

Built(cmd) == [ok |-> TRUE, exc |-> NoOutcome, cmd |-> cmd]
Rejected(exc, msg) == [ok |-> FALSE, exc |-> Raise(exc, msg), cmd |-> << >>]

IsNumber(x) == x.t \in {"int", "bool", "float"}

\* twice the numeric value of a number (floats are kept in halves)
Twice(x) == IF x.t = "float" THEN x.i ELSE 2 * x.i

\* x in [0, 1, 2]: list membership compares with ==, so True and 1.0 are 1
In012(x) == IsNumber(x) /\ Twice(x) \in {0, 2, 4}

\* class attributes
Channel_is_chan == 1
Channel_all_chans == 0
Satellite_is_chan == 1
Satellite_all_chans == 0
STR4500_chan == 0
\* mutant: self.chan, which __init__ rebinds to the Channel controller
SelfChan == dev.chan

\* the expression STR4500.chan: the class attribute, whatever self.chan holds
ClassChan == IntV(STR4500_chan)
STR4500_is_chan == 1
STR4500_all_chans == 1

\* mutant: presence tested by truthiness, so that channel 0 counts as absent
Channel_is_valid_truthy(chan) ==
  chan.t # "NoneType" /\ IsNumber(chan) /\ 0 < Twice(chan) /\ Twice(chan) <= 22

\* Channel.is_valid(chan): chan is not None and 0 <= chan <= 11
Channel_is_valid(chan) ==
  chan.t # "NoneType" /\ IsNumber(chan) /\ 0 <= Twice(chan) /\ Twice(chan) <= 22

\* Satellite.is_valid(sat): sat is not None and 0 < sat <= 32
Satellite_is_valid(sat) ==
  sat.t # "NoneType" /\ IsNumber(sat) /\ 0 < Twice(sat) /\ Twice(sat) <= 64

\* int(on), int(absolute), int(save), int(mode) of an argument that is a number
AsInt(x) == PyInt(x).data

Channel_set_power(chan, on, timestamp) ==
  IF ~Channel_is_valid(chan) THEN Rejected("ValueError", "Invalid channel value.")
  ELSE Built(<<timestamp, StrV("POW_ON"), StrV(VEHICLE_ANTENNA), AsInt(on), chan,
               IntV(Channel_is_chan), IntV(Channel_all_chans)>>)

Channel_set_power_mode(chan, mode, timestamp) ==
  IF ~Channel_is_valid(chan) THEN Rejected("ValueError", "Invalid channel value.")
  ELSE Built(<<timestamp, StrV("POW_MODE"), StrV(VEHICLE_ANTENNA), mode, chan,
               IntV(Channel_is_chan), IntV(Channel_all_chans)>>)

Channel_set_power_level(chan, level, absolute, timestamp) ==
  IF ~Channel_is_valid(chan) THEN Rejected("ValueError", "Invalid channel value.")
  ELSE Built(<<timestamp, StrV("POW_LEV"), StrV(VEHICLE_ANTENNA), level, chan,
               IntV(Channel_is_chan), IntV(Channel_all_chans), AsInt(absolute)>>)

Channel_set_prn(chan, on, timestamp) ==
  IF ~Channel_is_valid(chan) THEN Rejected("ValueError", "Invalid channel value.")
  ELSE Built(<<timestamp, StrV("PRN_CODE"), chan, IntV(Channel_all_chans),
               AsInt(on)>>)

Satellite_set_power(sat, on, timestamp) ==
  Built(<<timestamp, StrV("POW_ON"), StrV(VEHICLE_ANTENNA), AsInt(on), sat,
          IntV(Satellite_is_chan), IntV(Satellite_all_chans)>>)

Satellite_set_power_mode(sat, mode, timestamp) ==
  IF ~Satellite_is_valid(sat)
  THEN Rejected("ValueError", "Invalid satellite value.")
  ELSE Built(<<timestamp, StrV("POW_MODE"), StrV(VEHICLE_ANTENNA), mode, sat,
               IntV(Satellite_is_chan), IntV(Satellite_all_chans)>>)

Satellite_set_power_level(sat, level, absolute, timestamp) ==
  IF ~Satellite_is_valid(sat)
  THEN Rejected("ValueError", "Invalid satellite value.")
  ELSE Built(<<timestamp, StrV("POW_LEV"), StrV(VEHICLE_ANTENNA), level, sat,
               IntV(Satellite_is_chan), IntV(Satellite_all_chans),
               AsInt(absolute)>>)

STR4500_select_scenario(filename) == Built(<<StrV("SC"), filename>>)

\* mutant: only modes 0 and 1 pass
STR4500_set_trigger_01(mode) ==
  IF ~(IsNumber(mode) /\ Twice(mode) \in {0, 2})
  THEN Rejected("ValueError", "Invalid trigger mode.")
  ELSE Built(<<StrV("TR"), mode>>)

STR4500_set_trigger(mode) ==
  IF ~In012(mode) THEN Rejected("ValueError", "Invalid trigger mode.")
  ELSE Built(<<StrV("TR"), mode>>)

\* mutant: a local state machine refuses to run when no scenario was reported
STR4500_run_scenario_guarded ==
  IF lastStatus = StrV("No scenario specified")
  THEN Rejected("ValueError", "No scenario selected.")
  ELSE Built(<<StrV("RU")>>)

STR4500_run_scenario == Built(<<StrV("RU")>>)

STR4500_status == Built(<<StrV("NULL")>>)

\* mutant: save is passed on without int()
STR4500_end_scenario_rawsave(stop_mode, save, timestamp) ==
  IF ~In012(stop_mode) THEN Rejected("ValueError", "Invalid value of n.")
  ELSE Built(<<timestamp, StrV("EN"), stop_mode, save>>)

STR4500_end_scenario(stop_mode, save, timestamp) ==
  IF ~In012(stop_mode) THEN Rejected("ValueError", "Invalid value of n.")
  ELSE Built(<<timestamp, StrV("EN"), stop_mode, AsInt(save)>>)

STR4500_rewind_scenario == Built(<<StrV("RW")>>)

STR4500_set_power(on, timestamp) ==
  Built(<<timestamp, StrV("POW_ON"), StrV(VEHICLE_ANTENNA), AsInt(on),
          ClassChan, IntV(STR4500_is_chan), IntV(STR4500_all_chans)>>)

STR4500_set_power_mode(mode, timestamp) ==
  Built(<<timestamp, StrV("POW_MODE"), StrV(VEHICLE_ANTENNA), mode,
          ClassChan, IntV(STR4500_is_chan), IntV(STR4500_all_chans)>>)

STR4500_set_power_level(level, absolute, timestamp) ==
  Built(<<timestamp, StrV("POW_LEV"), StrV(VEHICLE_ANTENNA), level,
          ClassChan, IntV(STR4500_is_chan), IntV(STR4500_all_chans),
          AsInt(absolute)>>)

STR4500_set_prn(on, timestamp) ==
  Built(<<timestamp, StrV("PRN_CODE"), ClassChan,
          IntV(STR4500_all_chans), AsInt(on)>>)

STR4500_enable_hardware(mode) == Built(<<StrV("HARDWARE_ON"), AsInt(mode)>>)

STR4500_enable_popups(mode) == Built(<<StrV("POPUPS_ON"), AsInt(mode)>>)

STR4500_time == Built(<<StrV("TIME")>>)

STR4500_scenario_duration == Built(<<StrV("SC_DURATION")>>)

-----------------------------------------------------------------------------
(* Inputs offered to the facade *)

Booleans == {BoolV(TRUE), BoolV(FALSE)}
Timestamps == {StrV("-"), StrV("0 00:05:00")}
\* trigger and stop modes: the valid 0..2 and integers around them
Modes == {IntV(m) : m \in -1..(2 + ModeSlack)}
\* power modes the command dictionary defines
PowerModes == {IntV(0), IntV(1)}
Levels == {FloatV(0), FloatV(21), FloatV(-3)}
Filenames == {StrV("C:\\scenarios\\my.sim"), StrV("")}
ChanArgs == {None} \cup {IntV(c) : c \in -1..12}
SatArgs == {None} \cup {IntV(c) : c \in {0, 1, 11, 12, 32, 33}}

\* end_scenario's default arguments
EndScenarioDefaults ==
  [stop_mode |-> IntV(0), save |-> BoolV(FALSE), timestamp |-> StrV("-")]

\* a facade call: the class, the method and its arguments (None where unused)
Call(cls, op, idx, a, b, ts) ==
  [cls |-> cls, op |-> op, idx |-> idx, a |-> a, b |-> b, ts |-> ts]

NoCall == Call("", "", None, None, None, None)

\* what the method does with its arguments before calling handle
Invoke(c) ==
  CASE c.cls = "Channel" /\ c.op = "set_power" -> Channel_set_power(c.idx, c.a, c.ts)
    [] c.cls = "Channel" /\ c.op = "set_power_mode" ->
         Channel_set_power_mode(c.idx, c.a, c.ts)
    [] c.cls = "Channel" /\ c.op = "set_power_level" ->
         Channel_set_power_level(c.idx, c.a, c.b, c.ts)
    [] c.cls = "Channel" /\ c.op = "set_prn" -> Channel_set_prn(c.idx, c.a, c.ts)
    [] c.cls = "Satellite" /\ c.op = "set_power" ->
         Satellite_set_power(c.idx, c.a, c.ts)
    [] c.cls = "Satellite" /\ c.op = "set_power_mode" ->
         Satellite_set_power_mode(c.idx, c.a, c.ts)
    [] c.cls = "Satellite" /\ c.op = "set_power_level" ->
         Satellite_set_power_level(c.idx, c.a, c.b, c.ts)
    [] c.cls = "STR4500" /\ c.op = "__init__" -> STR4500_status
    [] c.cls = "STR4500" /\ c.op = "select_scenario" -> STR4500_select_scenario(c.a)
    [] c.cls = "STR4500" /\ c.op = "set_trigger" -> STR4500_set_trigger(c.a)
    [] c.cls = "STR4500" /\ c.op = "run_scenario" -> STR4500_run_scenario
    [] c.cls = "STR4500" /\ c.op = "status" -> STR4500_status
    [] c.cls = "STR4500" /\ c.op = "end_scenario" ->
         STR4500_end_scenario(c.a, c.b, c.ts)
    [] c.cls = "STR4500" /\ c.op = "rewind_scenario" -> STR4500_rewind_scenario
    [] c.cls = "STR4500" /\ c.op = "set_power" -> STR4500_set_power(c.a, c.ts)
    [] c.cls = "STR4500" /\ c.op = "set_power_mode" ->
         STR4500_set_power_mode(c.a, c.ts)
    [] c.cls = "STR4500" /\ c.op = "set_power_level" ->
         STR4500_set_power_level(c.a, c.b, c.ts)
    [] c.cls = "STR4500" /\ c.op = "set_prn" -> STR4500_set_prn(c.a, c.ts)
    [] c.cls = "STR4500" /\ c.op = "enable_hardware" -> STR4500_enable_hardware(c.a)
    [] c.cls = "STR4500" /\ c.op = "enable_popups" -> STR4500_enable_popups(c.a)
    [] c.cls = "STR4500" /\ c.op = "time" -> STR4500_time
    [] c.cls = "STR4500" /\ c.op = "scenario_duration" -> STR4500_scenario_duration

\* what the method returns to its caller, given what handle gave it
Finish(c, r) ==
  IF r.k # "response" THEN r
  ELSE IF c.op = "time" THEN PyInt(r.data)
  ELSE IF c.op = "scenario_duration" THEN Value(r.data)
  ELSE IF c.op = "__init__" THEN Value(ObjV("STR4500"))
  ELSE r

-----------------------------------------------------------------------------
(* The device's answers *)

\* the test double: <msg><status>1</status><data>%s</data></msg> % request
EchoReply(request) ==
  Doc(<<Elem("status", StrV("1")),
        Elem("data", IF request = "" THEN None ELSE StrV(request))>>)

\* answers a device may give to a request
DeviceReplies(request) ==
  { EmptyReply, MalformedReply, EchoReply(request),
    Doc(<< >>),
    Doc(<<Elem("status", StrV("0"))>>),
    Doc(<<Elem("status", StrV("4"))>>),
    Doc(<<Elem("status", StrV("10"))>>),
    Doc(<<Elem("status", StrV("2")), Elem("data", StrV("22"))>>),
    Doc(<<Elem("status", StrV("0")), Elem("error", StrV("ERROR"))>>) }

-----------------------------------------------------------------------------
(* State machine *)

NoDevice ==
  [exists |-> FALSE, host |-> "", port |-> 0, connected |-> FALSE,
   chan |-> None, sat |-> None]

\* the attributes STR4500.__init__ leaves on the instance
Constructed ==
  [exists |-> TRUE, host |-> "127.0.0.1", port |-> SIMPLEX_PORT,
   connected |-> TRUE, chan |-> ObjV("Channel"), sat |-> ObjV("Satellite")]

Init ==
  /\ pc = "idle"
  /\ dev = NoDevice
  /\ call = NoCall
  /\ line = ""
  /\ sockOpen = 0
  /\ sent = << >>
  /\ reply = EmptyReply
  /\ err = NoOutcome
  /\ resp = NoOutcome
  /\ result = NoOutcome
  /\ lastStatus = None
  /\ ncalls = 0
  /\ fields = << >>
  /\ io = << >>

Bump(n) == IF n < MaxCalls THEN n + 1 ELSE n

\* A facade method is entered: it validates, builds cmd, and handle encodes it
\* and enters dispatch, which creates the socket (lines 143-144).
Enter(c) ==
  /\ pc = "idle"
  /\ call' = c
  /\ UNCHANGED <<dev, lastStatus, sent, reply, err, resp, io>>
  /\ fields' = Invoke(c).cmd
  /\ IF Invoke(c).ok
     THEN /\ pc' = "connect"
          /\ line' = encode(fields')
          /\ sockOpen' = sockOpen + 1
          /\ result' = NoOutcome
          /\ ncalls' = ncalls
     ELSE /\ pc' = "done"
          /\ line' = ""
          /\ sockOpen' = sockOpen
          /\ result' = Invoke(c).exc
          /\ ncalls' = Bump(ncalls)

New == ~dev.exists /\ Enter(Call("STR4500", "__init__", None, None, None, None))

select_scenario ==
  dev.exists /\ \E f \in Filenames :
    Enter(Call("STR4500", "select_scenario", None, f, None, None))

set_trigger ==
  dev.exists /\ \E m \in Modes :
    Enter(Call("STR4500", "set_trigger", None, m, None, None))

run_scenario ==
  dev.exists /\ Enter(Call("STR4500", "run_scenario", None, None, None, None))

status == dev.exists /\ Enter(Call("STR4500", "status", None, None, None, None))

end_scenario ==
  dev.exists /\ \E m \in Modes \cup {EndScenarioDefaults.stop_mode},
                   save \in Booleans \cup {EndScenarioDefaults.save},
                   ts \in Timestamps \cup {EndScenarioDefaults.timestamp} :
    Enter(Call("STR4500", "end_scenario", None, m, save, ts))

rewind_scenario ==
  dev.exists /\ Enter(Call("STR4500", "rewind_scenario", None, None, None, None))

set_power ==
  dev.exists /\ \E on \in Booleans, ts \in Timestamps :
    Enter(Call("STR4500", "set_power", None, on, None, ts))

set_power_mode ==
  dev.exists /\ \E m \in Modes, ts \in Timestamps :
    Enter(Call("STR4500", "set_power_mode", None, m, None, ts))

set_power_level ==
  dev.exists /\ \E l \in Levels, abs \in Booleans, ts \in Timestamps :
    Enter(Call("STR4500", "set_power_level", None, l, abs, ts))

set_prn ==
  dev.exists /\ \E on \in Booleans, ts \in Timestamps :
    Enter(Call("STR4500", "set_prn", None, on, None, ts))

enable_hardware ==
  dev.exists /\ \E m \in Booleans :
    Enter(Call("STR4500", "enable_hardware", None, m, None, None))

enable_popups ==
  dev.exists /\ \E m \in Booleans :
    Enter(Call("STR4500", "enable_popups", None, m, None, None))

time == dev.exists /\ Enter(Call("STR4500", "time", None, None, None, None))

scenario_duration ==
  dev.exists /\ Enter(Call("STR4500", "scenario_duration", None, None, None, None))

chan_set_power ==
  dev.exists /\ \E c \in ChanArgs, on \in Booleans, ts \in Timestamps :
    Enter(Call("Channel", "set_power", c, on, None, ts))

chan_set_power_mode ==
  dev.exists /\ \E c \in ChanArgs, m \in PowerModes, ts \in Timestamps :
    Enter(Call("Channel", "set_power_mode", c, m, None, ts))

chan_set_power_level ==
  dev.exists /\ \E c \in ChanArgs, l \in Levels, abs \in Booleans :
    Enter(Call("Channel", "set_power_level", c, l, abs, StrV("-")))

chan_set_prn ==
  dev.exists /\ \E c \in ChanArgs, on \in Booleans, ts \in Timestamps :
    Enter(Call("Channel", "set_prn", c, on, None, ts))

sat_set_power ==
  dev.exists /\ \E c \in SatArgs, on \in Booleans, ts \in Timestamps :
    Enter(Call("Satellite", "set_power", c, on, None, ts))

sat_set_power_mode ==
  dev.exists /\ \E c \in SatArgs, m \in PowerModes, ts \in Timestamps :
    Enter(Call("Satellite", "set_power_mode", c, m, None, ts))

sat_set_power_level ==
  dev.exists /\ \E c \in SatArgs, l \in Levels, abs \in Booleans :
    Enter(Call("Satellite", "set_power_level", c, l, abs, StrV("-")))

\* dispatch, line 146: sock.connect((host, port)) succeeds
Connect ==
  /\ pc = "connect"
  /\ pc' = "send"
  /\ io' = Append(io, "connect")
  /\ UNCHANGED <<dev, call, line, sockOpen, sent, reply, err, resp, result,
                 lastStatus, ncalls, fields>>

\* lines 147-148: sock.sendall(msg) writes the whole line
SendAll ==
  /\ pc = "send"
  /\ sent' = Append(sent, line)
  /\ pc' = "recv"
  /\ io' = Append(io, "sendall")
  /\ UNCHANGED <<dev, call, line, sockOpen, reply, err, resp, result,
                 lastStatus, ncalls, fields>>

\* line 149: one sock.recv(BUFFER_SIZE) returns the device's answer
Recv ==
  /\ pc = "recv"
  /\ \E r \in DeviceReplies(sent[Len(sent)]) : reply' = r
  /\ pc' = "finally"
  /\ io' = Append(io, "recv")
  /\ UNCHANGED <<dev, call, line, sockOpen, sent, err, resp, result,
                 lastStatus, ncalls, fields>>

\* connect, sendall or recv raises socket.error
TransportFail ==
  /\ pc \in {"connect", "send", "recv"}
  /\ err' = Raise("socket.error", pc)
  /\ pc' = "finally"
  /\ io' = Append(io, pc \o ":error")
  /\ UNCHANGED <<dev, call, line, sockOpen, sent, reply, resp, result,
                 lastStatus, ncalls, fields>>

\* mutant: close() follows recv without try/finally, so a failure skips it
CloseOnSuccessOnly ==
  /\ pc = "finally"
  /\ sockOpen' = IF err.k = "raise" THEN sockOpen ELSE sockOpen - 1
  /\ IF err.k = "raise"
     THEN /\ pc' = "done"
          /\ resp' = err
          /\ result' = err
          /\ ncalls' = Bump(ncalls)
     ELSE /\ pc' = "parse"
          /\ UNCHANGED <<resp, result, ncalls>>
  /\ err' = NoOutcome
  /\ io' = IF err.k = "raise" THEN io ELSE Append(io, "close")
  /\ UNCHANGED <<dev, call, line, sent, reply, lastStatus, fields>>

\* mutant: after a failure the socket is closed and the command is tried again
CloseAndRetry ==
  /\ pc = "finally"
  /\ IF err.k = "raise" /\ Len(io) < 4
     THEN /\ pc' = "connect"
          /\ sockOpen' = sockOpen
          /\ UNCHANGED <<resp, result, ncalls>>
     ELSE IF err.k = "raise"
     THEN /\ pc' = "done"
          /\ sockOpen' = sockOpen - 1
          /\ resp' = err
          /\ result' = err
          /\ ncalls' = Bump(ncalls)
     ELSE /\ pc' = "parse"
          /\ sockOpen' = sockOpen - 1
          /\ UNCHANGED <<resp, result, ncalls>>
  /\ err' = NoOutcome
  /\ io' = Append(io, "close")
  /\ UNCHANGED <<dev, call, line, sent, reply, lastStatus, fields>>

\* lines 150-151: finally: sock.close(); a pending exception then propagates
\* through handle and the method to the caller
Close ==
  /\ pc = "finally"
  /\ sockOpen' = sockOpen - 1
  /\ IF err.k = "raise"
     THEN /\ pc' = "done"
          /\ resp' = err
          /\ result' = err
          /\ ncalls' = Bump(ncalls)
     ELSE /\ pc' = "parse"
          /\ UNCHANGED <<resp, result, ncalls>>
  /\ err' = NoOutcome
  /\ io' = Append(io, "close")
  /\ UNCHANGED <<dev, call, line, sent, reply, lastStatus, fields>>

\* handle, line 173: CommandResponse.fromstring on what dispatch returned, and
\* the method's own use of the response
Return ==
  /\ pc = "parse"
  /\ resp' = fromstring(reply)
  /\ result' = Finish(call, resp')
  /\ lastStatus' = IF resp'.k = "response" THEN resp'.status ELSE lastStatus
  /\ dev' = IF call.op = "__init__" /\ resp'.k = "response" THEN Constructed ELSE dev
  /\ ncalls' = Bump(ncalls)
  /\ pc' = "done"
  /\ UNCHANGED <<call, line, sockOpen, sent, reply, err, fields, io>>

\* The caller has taken the call's outcome; the call's locals are gone and
\* the caller is free to make its next call.
Resume ==
  /\ pc = "done"
  /\ pc' = "idle"
  /\ call' = NoCall
  /\ line' = ""
  /\ sent' = << >>
  /\ reply' = EmptyReply
  /\ resp' = NoOutcome
  /\ result' = NoOutcome
  /\ fields' = << >>
  /\ io' = << >>
  /\ UNCHANGED <<dev, sockOpen, err, lastStatus, ncalls>>

Next ==
  \/ New
  \/ select_scenario
  \/ set_trigger
  \/ run_scenario
  \/ status
  \/ end_scenario
  \/ rewind_scenario
  \/ set_power
  \/ set_power_mode
  \/ set_power_level
  \/ set_prn
  \/ enable_hardware
  \/ enable_popups
  \/ time
  \/ scenario_duration
  \/ chan_set_power
  \/ chan_set_power_mode
  \/ chan_set_power_level
  \/ chan_set_prn
  \/ sat_set_power
  \/ sat_set_power_mode
  \/ sat_set_power_level
  \/ Connect
  \/ SendAll
  \/ Recv
  \/ TransportFail
  \/ Close
  \/ Return
  \/ Resume

Spec == Init /\ [][Next]_vars

-----------------------------------------------------------------------------
(* The response parser on its own: fromstring applied to every reply of a  *)
(* bounded family of documents.                                            *)

StatusTexts ==
  {None, StrV("abc"), StrV("-1"), StrV("7"), StrV("10"), StrV(" 3 ")}
    \cup {StrV(NatToStr(n)) : n \in 0..6}
ErrorTexts == {None, StrV("ERROR"), StrV("Scenario not loaded")}
DataTexts == {None, StrV("22"), StrV("RU")}

\* no element with this tag, or one element with one of the texts
Opt(tag, texts) == {<< >>} \cup {<<Elem(tag, t)>> : t \in texts}

ParseInputs ==
  {EmptyReply, MalformedReply}
    \cup {Doc(a \o b \o c) : a \in Opt("status", StatusTexts),
                             b \in Opt("error", ErrorTexts),
                             c \in Opt("data", DataTexts)}
    \cup {Doc(c \o b \o a) : a \in Opt("status", StatusTexts),
                             b \in Opt("error", ErrorTexts),
                             c \in Opt("data", DataTexts)}
    \cup {Doc(<<Elem("status", StrV("4")), Elem("status", StrV("10"))>>),
          Doc(<<Elem("status1", StrV("0"))>>)}

InitParse ==
  /\ pc = "fromstring"
  /\ reply \in ParseInputs
  /\ dev = NoDevice
  /\ call = NoCall
  /\ line = ""
  /\ sockOpen = 0
  /\ sent = << >>
  /\ err = NoOutcome
  /\ resp = NoOutcome
  /\ result = NoOutcome
  /\ lastStatus = None
  /\ ncalls = 0
  /\ fields = << >>
  /\ io = << >>

\* CommandResponse.fromstring(reply) is evaluated
Parse ==
  /\ pc = "fromstring"
  /\ resp' = fromstring(reply)
  /\ pc' = "parsed"
  /\ UNCHANGED <<dev, call, line, sockOpen, sent, reply, err, result,
                 lastStatus, ncalls, fields, io>>

NextParse == Parse

SpecParse == InitParse /\ [][NextParse]_vars

-----------------------------------------------------------------------------
(* Vocabulary of the claims *)

HasChild(p, tag) == \E j \in 1..Len(p.children) : p.children[j].tag = tag

\* the text of the reply's status element is the decimal numeral of n
StatusIs(p, n) ==
  /\ HasChild(p, "status")
  /\ Find(p, "status").text = StrV(IntToStr(n))

\* the spec's ProtocolError: RuntimeError with one of the parser's two messages
IsProtocolError(o) ==
  /\ o.k = "raise"
  /\ o.exc = "RuntimeError"
  /\ o.msg \in {"Invalid STR4500 status.",
                "Invalid STR4500 response: status required."}

\* the spec's DeviceError carrying text
IsDeviceError(o, text) ==
  /\ o.k = "raise"
  /\ o.exc = "RuntimeError"
  /\ o.msg = "STR4500 returned error: " \o text

\* the spec's ValidationError
IsValidationError(o) == o.k = "raise" /\ o.exc = "ValueError"

ExpectedName(n) ==
  CASE n = 0 -> "No scenario specified"
    [] n = 1 -> "Invalid scenario"
    [] n = 2 -> "Initialised"
    [] n = 3 -> "Arming"
    [] n = 4 -> "Running"
    [] n = 5 -> "Paused"
    [] n = 6 -> "Ended"

SevenNames ==
  {"No scenario specified", "Invalid scenario", "Initialised", "Arming",
   "Running", "Paused", "Ended"}

\* C1: for every status code N in 0..6, a reply with a status element of text
\* N, no error element and no data element parses to the response whose
\* status is the name mapped to N and whose data is absent.
C1_StatusOnlyParses ==
  \A n \in 0..6 :
    (pc = "parsed" /\ reply.form = "xml" /\ StatusIs(reply, n)
       /\ ~HasChild(reply, "error") /\ ~HasChild(reply, "data"))
    => resp = [k |-> "response", exc |-> "", msg |-> "",
               status |-> StrV(ExpectedName(n)), data |-> None]

C1_Witness ==
  /\ pc = "parsed"
  /\ reply = Doc(<<Elem("status", StrV("6"))>>)
  /\ resp.k = "response"
  /\ resp.status = StrV("Ended")
  /\ resp.data = None

\* C2: a non-empty document whose status code is an integer outside 0..6, or
\* that has no status element, always fails with the protocol error; no
\* response is returned.
C2_BadStatusIsProtocolError ==
  (pc = "parsed" /\ reply.form = "xml"
     /\ \/ ~HasChild(reply, "status")
        \/ /\ Find(reply, "status").text.t = "str"
           /\ ParseInt(Find(reply, "status").text.s).ok
           /\ ParseInt(Find(reply, "status").text.s).n \notin 0..6)
  => IsProtocolError(resp)

C2_Witness ==
  /\ pc = "parsed"
  /\ reply = Doc(<<Elem("status", StrV("-1")), Elem("data", StrV("22"))>>)
  /\ resp.k = "raise"
  /\ resp.msg = "Invalid STR4500 status."

\* text of an element as the parser formats it into a message
Shown(text) == IF text.t = "NoneType" THEN "None" ELSE text.s

\* C3 as stated: every reply with an error element, whatever its status
\* (valid, out of range or missing), fails with the device error carrying the
\* error element's text.
C3_Original ==
  (pc = "parsed" /\ reply.form = "xml" /\ HasChild(reply, "error"))
  => IsDeviceError(resp, Shown(Find(reply, "error").text))

\* C3 amended: every reply with an error element and a status element whose
\* code is one of 0..6 fails with the device error carrying the error
\* element's text, whatever data it has; no response is returned.
C3_ErrorWithValidStatus ==
  (pc = "parsed" /\ reply.form = "xml" /\ HasChild(reply, "error")
     /\ HasChild(reply, "status")
     /\ Find(reply, "status").text.t = "str"
     /\ ParseInt(Find(reply, "status").text.s).ok
     /\ ParseInt(Find(reply, "status").text.s).n \in 0..6)
  => IsDeviceError(resp, Shown(Find(reply, "error").text))

C3_Witness ==
  /\ pc = "parsed"
  /\ reply = Doc(<<Elem("status", StrV("4")), Elem("error", StrV("Scenario not loaded")),
                   Elem("data", StrV("22"))>>)
  /\ resp.k = "raise"
  /\ resp.msg = "STR4500 returned error: Scenario not loaded"

\* C4: every CommandResponse that fromstring, handle or a facade call returns
\* has one of the seven named states as its status; an empty reply makes the
\* call fail.
C4_StatusAlwaysNamed ==
  /\ resp.k = "response" => (resp.status.t = "str" /\ resp.status.s \in SevenNames)
  /\ result.k = "response"
       => (result.status.t = "str" /\ result.status.s \in SevenNames)

\* the call in progress raised before any I/O: nothing opened, nothing sent
RejectedLocally ==
  /\ pc = "done"
  /\ IsValidationError(result)
  /\ line = ""
  /\ sent = << >>
  /\ sockOpen = 0

\* the call in progress writes want, whole and at most once, and nothing else
SendsExactly(want) ==
  /\ line = want
  /\ sent \in {<< >>, <<want>>}
  /\ pc \in {"recv", "parse"} => sent = <<want>>
  /\ resp.k = "response" => sent = <<want>>

Bit(b) == IF b = BoolV(TRUE) THEN "1" ELSE "0"

InRange(x, lo, hi) == x.t = "int" /\ x.i \in lo..hi

ChannelOps == {"set_power", "set_power_mode", "set_power_level", "set_prn"}
SatelliteOps == {"set_power", "set_power_mode", "set_power_level"}

\* C5 as stated: a channel operation with a channel outside 0..11 or absent,
\* and a satellite operation with a satellite outside 1..32 or absent, raises
\* the validation error, opens no connection and sends no bytes.
C5_BadIndexRejected ==
  /\ (call.cls = "Channel" /\ call.op \in ChannelOps /\ ~InRange(call.idx, 0, 11))
       => RejectedLocally
  /\ (call.cls = "Satellite" /\ call.op \in SatelliteOps
        /\ ~InRange(call.idx, 1, 32))
       => RejectedLocally

\* C6: set_trigger(mode) raises the validation error without I/O when mode is
\* not 0, 1 or 2; otherwise it sends exactly "TR,<mode>" and returns the
\* parsed reply.
C6_SetTrigger ==
  (call.cls = "STR4500" /\ call.op = "set_trigger")
  => IF InRange(call.a, 0, 2)
     THEN /\ SendsExactly(CASE call.a.i = 0 -> "TR,0"
                            [] call.a.i = 1 -> "TR,1"
                            [] call.a.i = 2 -> "TR,2")
          /\ (pc = "done" /\ result.exc # "socket.error")
               => (result = fromstring(reply) /\ sent = <<line>>)
     ELSE RejectedLocally

C6_Witness ==
  /\ call.op = "set_trigger"
  /\ call.a = IntV(2)
  /\ pc = "done"
  /\ sent = <<"TR,2">>
  /\ result.k = "response"
  /\ result.status = StrV("Running")

\* C7: end_scenario(stop_mode, save, timestamp) raises the validation error
\* without I/O when stop_mode is not 0, 1 or 2; otherwise the line has exactly
\* the fields timestamp, EN, stop_mode, save, with save written 1 or 0; the
\* defaults give "-,EN,0,0".
C7_EndScenario ==
  (call.cls = "STR4500" /\ call.op = "end_scenario")
  => IF InRange(call.a, 0, 2)
     THEN /\ SendsExactly(call.ts.s \o ",EN," \o Digits[call.a.i + 1] \o ","
                            \o Bit(call.b))
          /\ (call.a = IntV(0) /\ call.b = BoolV(FALSE) /\ call.ts = StrV("-"))
               => line = "-,EN,0,0"
     ELSE RejectedLocally

C7_Witness ==
  /\ call.op = "end_scenario"
  /\ call.a = IntV(1)
  /\ call.b = BoolV(TRUE)
  /\ pc = "done"
  /\ sent = <<"0 00:05:00,EN,1,1">>
  /\ result.k = "response"

\* C8: every globally addressed command carries index 0 and apply-to-all flag
\* 1, for every value of on, mode, absolute and level, whatever the instance's
\* own chan attribute is.
C8_GlobalCommands ==
  (call.cls = "STR4500" /\ dev.exists /\ dev.chan # IntV(0))
  => /\ call.op = "set_power"
          => SendsExactly(call.ts.s \o ",POW_ON,v1_a1," \o Bit(call.a) \o ",0,1,1")
     /\ call.op = "set_power_mode"
          => SendsExactly(call.ts.s \o ",POW_MODE,v1_a1," \o IntToStr(call.a.i)
                            \o ",0,1,1")
     /\ call.op = "set_power_level"
          => SendsExactly(call.ts.s \o ",POW_LEV,v1_a1," \o FloatToStr(call.a.i)
                            \o ",0,1,1," \o Bit(call.b))
     /\ call.op = "set_prn"
          => SendsExactly(call.ts.s \o ",PRN_CODE,0,1," \o Bit(call.a))

C8_Witness ==
  /\ call.cls = "STR4500"
  /\ call.op = "set_power_level"
  /\ dev.chan = ObjV("Channel")
  /\ pc = "done"
  /\ sent = <<"-,POW_LEV,v1_a1,10.5,0,1,1,1">>
  /\ result.k = "response"

\* C9: for every channel index c in 0..11 the channel-addressed commands carry
\* index c, channel flag 1 and apply-to-all flag 0; index 0 is a present, valid
\* channel.
C9_ChannelCommands ==
  (call.cls = "Channel" /\ InRange(call.idx, 0, 11))
  => /\ ~IsValidationError(result)
     /\ call.op = "set_power"
          => SendsExactly(call.ts.s \o ",POW_ON,v1_a1," \o Bit(call.a) \o ","
                            \o IntToStr(call.idx.i) \o ",1,0")
     /\ call.op = "set_power_mode"
          => SendsExactly(call.ts.s \o ",POW_MODE,v1_a1," \o IntToStr(call.a.i)
                            \o "," \o IntToStr(call.idx.i) \o ",1,0")
     /\ call.op = "set_power_level"
          => SendsExactly(call.ts.s \o ",POW_LEV,v1_a1," \o FloatToStr(call.a.i)
                            \o "," \o IntToStr(call.idx.i) \o ",1,0,"
                            \o Bit(call.b))
     /\ call.op = "set_prn"
          => SendsExactly(call.ts.s \o ",PRN_CODE," \o IntToStr(call.idx.i)
                            \o ",0," \o Bit(call.a))

C9_Witness ==
  /\ call.cls = "Channel"
  /\ call.op = "set_prn"
  /\ call.idx = IntV(0)
  /\ pc = "done"
  /\ sent = <<"-,PRN_CODE,0,0,1">>
  /\ result.k = "response"

\* the device answered the call in progress as the echo test double does
Echoed == call.op # "" /\ sent = <<line>> /\ reply = EchoReply(line)

\* C10 as stated: against the echo device every facade call returns status
\* Invalid scenario and data equal to the exact line it sent.
C10_Original ==
  (pc = "done" /\ Echoed /\ call.op # "__init__")
  => result = CommandResponse(StrV("Invalid scenario"), StrV(line))

\* C10 amended: handle sends exactly encode(cmd) and returns the response
\* decoded from the reply to that send; against the echo device handle's
\* response has status Invalid scenario and data equal to the line sent, also
\* after earlier calls, and every facade call returns that response, except
\* scenario_duration, which returns the data alone, and time, which fails
\* because the echoed line is no integer.
C10_EchoRoundTrip ==
  /\ sent \in {<< >>, <<line>>}
  /\ (pc = "done" /\ Echoed)
       => /\ resp = CommandResponse(StrV("Invalid scenario"), StrV(sent[1]))
          /\ call.op = "run_scenario" => resp.data = StrV("RU")
          /\ call.op \notin {"time", "scenario_duration", "__init__"}
               => result = resp
          /\ call.op = "scenario_duration" => result = Value(StrV("SC_DURATION"))
          /\ call.op = "time" => (result.k = "raise" /\ result.exc = "ValueError")

C10_Witness ==
  /\ pc = "done"
  /\ Echoed
  /\ ncalls = MaxCalls
  /\ lastStatus = StrV("Invalid scenario")
  /\ call.op = "run_scenario"
  /\ result = CommandResponse(StrV("Invalid scenario"), StrV("RU"))

RoundTrips ==
  { <<"connect", "sendall", "recv", "close">>,
    <<"connect:error", "close">>,
    <<"connect", "send:error", "close">>,
    <<"connect", "sendall", "recv:error", "close">> }

IsPrefix(a, b) == Len(a) <= Len(b) /\ SubSeq(b, 1, Len(a)) = a

Failed(log) == \E j \in 1..Len(log) : log[j] \in {"connect:error", "send:error", "recv:error"}

\* C12: a facade call that passes validation performs exactly one round trip,
\* in the order connect, one send of the whole line, one receive, close, and is
\* never retried after a failure; a transport failure propagates to the caller;
\* at most one command is outstanding at any time.
C12_OneRoundTrip ==
  /\ \E t \in RoundTrips : IsPrefix(io, t)
  /\ sent \in {<< >>, <<line>>}
  /\ sent # << >> <=> \E j \in 1..Len(io) : io[j] = "sendall"
  /\ sockOpen <= 1
  /\ pc = "send" => (io = <<"connect">> /\ sent = << >>)
  /\ pc = "done"
       => /\ IF line = "" THEN io = << >> ELSE io \in RoundTrips
          /\ Failed(io) <=> (result.k = "raise" /\ result.exc = "socket.error")
          /\ resp.k = "response" => io = <<"connect", "sendall", "recv", "close">>

C12_Witness ==
  /\ pc = "done"
  /\ ncalls = MaxCalls
  /\ call.op = "rewind_scenario"
  /\ io = <<"connect", "sendall", "recv", "close">>
  /\ sent = <<"RW">>
  /\ result.k = "response"

\* the line the Channel method of the same name sends for the same arguments
ChannelLineFor(c) == encode(Invoke([c EXCEPT !.cls = "Channel"]).cmd)

\* the comma-separated fields of a line
RECURSIVE Split(_)
Split(text) ==
  IF text = "" THEN <<"">>
  ELSE IF Head(text) = "," THEN <<"">> \o Split(Tail(text))
  ELSE LET rest == Split(Tail(text))
       IN <<Head(text) \o rest[1]>> \o Tail(rest)

\* C13 as stated: for every index valid both as a channel and as a satellite
\* (1..11) and every operation both offer, the line the Satellite operation
\* sends differs from the Channel operation's line in the is-channel-flag
\* field: 1 for the channel, 0 for the satellite.
C13_FlagDistinguishes ==
  (call.cls = "Satellite" /\ call.op \in SatelliteOps /\ InRange(call.idx, 1, 11)
     /\ line # "")
  => /\ line # ChannelLineFor(call)
     /\ Split(line)[6] = "0"
     /\ Split(ChannelLineFor(call))[6] = "1"

-----------------------------------------------------------------------------
(* The wire codec on its own: encode applied to every field list of a      *)
(* bounded family.                                                         *)

FieldValues ==
  {StrV("-"), StrV("EN"), StrV("RU"), IntV(0), IntV(12), BoolV(TRUE),
   BoolV(FALSE)}

FieldLists == UNION {[1..n -> FieldValues] : n \in 0..MaxFields}

InitEncode ==
  /\ pc = "encode"
  /\ fields \in FieldLists
  /\ dev = NoDevice
  /\ call = NoCall
  /\ line = ""
  /\ sockOpen = 0
  /\ sent = << >>
  /\ reply = EmptyReply
  /\ err = NoOutcome
  /\ resp = NoOutcome
  /\ result = NoOutcome
  /\ lastStatus = None
  /\ ncalls = 0
  /\ io = << >>

\* encode(fields) is evaluated
Encode ==
  /\ pc = "encode"
  /\ line' = encode(fields)
  /\ pc' = "encoded"
  /\ UNCHANGED <<dev, call, sockOpen, sent, reply, err, resp, result,
                 lastStatus, ncalls, fields, io>>

NextEncode == Encode

SpecEncode == InitEncode /\ [][NextEncode]_vars

\* the textual form of a field, with a boolean written as 1 or 0
TextBit(f) ==
  CASE f.t = "str" -> f.s
    [] f.t = "int" -> IntToStr(f.i)
    [] f.t = "bool" -> (IF f.i = 1 THEN "1" ELSE "0")

\* the textual form of a field, with a boolean written as Python's str does
TextName(f) ==
  CASE f.t = "str" -> f.s
    [] f.t = "int" -> IntToStr(f.i)
    [] f.t = "bool" -> (IF f.i = 1 THEN "True" ELSE "False")

\* C14 as stated: encode returns the fields' textual forms joined by single
\* commas in the same order, with no leading or trailing comma, strings
\* unchanged and every boolean written as 1 or 0.
C14_Original ==
  pc = "encoded"
  => IF fields = << >> THEN line = ""
     ELSE Split(line) = [j \in 1..Len(fields) |-> TextBit(fields[j])]

\* C14 amended: encode returns the fields' textual forms joined by single
\* commas in the same order, with no leading or trailing comma, strings
\* unchanged, integers in decimal and a boolean field written True or False;
\* encode(["-", "EN", 0, 0]) is "-,EN,0,0" and encode(["RU"]) is "RU".
C14_EncodeJoins ==
  pc = "encoded"
  => /\ IF fields = << >> THEN line = ""
        ELSE Split(line) = [j \in 1..Len(fields) |-> TextName(fields[j])]
     /\ fields = <<StrV("-"), StrV("EN"), IntV(0), IntV(0)>> => line = "-,EN,0,0"
     /\ fields = <<StrV("RU")>> => line = "RU"

C14_Witness ==
  /\ pc = "encoded"
  /\ fields = <<StrV("-"), StrV("EN"), IntV(0), BoolV(FALSE)>>
  /\ line = "-,EN,0,False"

-----------------------------------------------------------------------------
\* the textual form of an argument that the facade passes on unconverted
WireText(x) ==
  CASE x.t = "str" -> x.s
    [] x.t = "int" -> IntToStr(x.i)
    [] x.t = "float" -> FloatToStr(x.i)
    [] x.t = "NoneType" -> "None"

\* whether a call is refused locally, as a function of its arguments alone
ExpectedRejected(c) ==
  \/ c.cls = "Channel" /\ ~InRange(c.idx, 0, 11)
  \/ /\ c.cls = "Satellite"
     /\ c.op \in {"set_power_mode", "set_power_level"}
     /\ ~InRange(c.idx, 1, 32)
  \/ /\ c.cls = "STR4500"
     /\ c.op \in {"set_trigger", "end_scenario"}
     /\ ~InRange(c.a, 0, 2)

\* the address fields of a call: index, channel flag, apply-to-all flag
Address(c) ==
  IF c.cls = "STR4500" THEN "0,1,1" ELSE WireText(c.idx) \o ",1,0"

\* the line a call sends, as a function of its arguments alone
ExpectedLine(c) ==
  CASE c.op \in {"__init__", "status"} -> "NULL"
    [] c.op = "select_scenario" -> "SC," \o c.a.s
    [] c.op = "set_trigger" -> "TR," \o WireText(c.a)
    [] c.op = "run_scenario" -> "RU"
    [] c.op = "end_scenario" ->
         c.ts.s \o ",EN," \o WireText(c.a) \o "," \o Bit(c.b)
    [] c.op = "rewind_scenario" -> "RW"
    [] c.op = "set_power" ->
         c.ts.s \o ",POW_ON,v1_a1," \o Bit(c.a) \o "," \o Address(c)
    [] c.op = "set_power_mode" ->
         c.ts.s \o ",POW_MODE,v1_a1," \o WireText(c.a) \o "," \o Address(c)
    [] c.op = "set_power_level" ->
         c.ts.s \o ",POW_LEV,v1_a1," \o WireText(c.a) \o "," \o Address(c)
           \o "," \o Bit(c.b)
    [] c.op = "set_prn" ->
         c.ts.s \o ",PRN_CODE,"
           \o (IF c.cls = "STR4500" THEN "0,1," ELSE WireText(c.idx) \o ",0,")
           \o Bit(c.a)
    [] c.op = "enable_hardware" -> "HARDWARE_ON," \o Bit(c.a)
    [] c.op = "enable_popups" -> "POPUPS_ON," \o Bit(c.a)
    [] c.op = "time" -> "TIME"
    [] c.op = "scenario_duration" -> "SC_DURATION"

\* C15: the client keeps no model of the device state: whether a facade call
\* is rejected locally, and the line it sends when it is not, are functions of
\* the call's own arguments, whatever calls were made and whatever statuses
\* were received before (run_scenario is sent even after the status
\* No scenario specified).
C15_NoLocalStateMachine ==
  call.op # ""
  => IF ExpectedRejected(call) THEN RejectedLocally
     ELSE /\ line = ExpectedLine(call)
          /\ pc = "recv" => sent = <<ExpectedLine(call)>>
          /\ pc = "done" => (sent = <<ExpectedLine(call)>> \/ Failed(io))

C15_Witness ==
  /\ lastStatus = StrV("No scenario specified")
  /\ ncalls = MaxCalls
  /\ call.op = "run_scenario"
  /\ pc = "recv"
  /\ sent = <<"RU">>

-----------------------------------------------------------------------------
\* an outcome that is one of the error kinds the library defines
IsDefinedError(o) ==
  \/ IsValidationError(o)
  \/ IsProtocolError(o)
  \/ o.k = "raise" /\ o.exc = "socket.error"
  \/ \E text \in ErrorTexts : text.t = "str" /\ IsDeviceError(o, text.s)

\* the reply is a document with one of the seven status codes and no error
ValidStatusReply(p) ==
  /\ p.form = "xml"
  /\ \E n \in StatusCodes : StatusIs(p, n)
  /\ ~HasChild(p, "error")

\* C16 as stated: time() sends TIME and returns the reply's data coerced to an
\* integer, scenario_duration() sends SC_DURATION and returns the data as text
\* unchanged; on a reply with a valid status, with or without a data element,
\* each call either returns such a value or fails with a defined error kind.
C16_TimeAndDuration ==
  (/\ pc = "done"
   /\ call.op \in {"time", "scenario_duration"}
   /\ ~Failed(io)
   /\ ValidStatusReply(reply))
  => /\ sent = <<IF call.op = "time" THEN "TIME" ELSE "SC_DURATION">>
     /\ \/ IsDefinedError(result)
        \/ /\ call.op = "time"
           /\ result.k = "value"
           /\ result.data.t = "int"
           /\ Find(reply, "data").text.t = "str"
           /\ ParseInt(Find(reply, "data").text.s).ok
           /\ result.data.i = ParseInt(Find(reply, "data").text.s).n
        \/ /\ call.op = "scenario_duration"
           /\ result = Value(Find(reply, "data").text)

====
